---- MODULE Spec2Model ----
(***************************************************************************)
(* The actor / handle core of ph-actors-tcc: the transport handle `Net`    *)
(* (src/net.rs) and the facade handle `LoreApi` (src/api/lore.rs).  Each   *)
(* handle is either Actual (an mpsc Sender to an owner task) or Mock (a    *)
(* mutex-guarded table).  The owner tasks (net/core.rs, api/lore/core.rs)  *)
(* and the message types (message.rs) are not part of the available        *)
(* sources; they are modelled from the specification, sections 4.1-4.4.    *)
(* The log level conversions are those of src/log/data.rs.                 *)
(***************************************************************************)
EXTENDS Naturals, Sequences, FiniteSets, TLC

\* ------------------------------------------------------------- bounds
NumCallers == 2
MaxReq == 2
MaxCap == 2

\* ------------------------------------------------------------ results
\* Result<ArcStr, anyhow::Error>
Ok(v) == [ok |-> TRUE, val |-> v]
Err(m) == [ok |-> FALSE, val |-> m]

\* ------------------------------------------------- the two layers
Layers == {"lore", "net"}

\* The name each handle uses for its owner in its error contexts.
ActorName(l) == IF l = "net" THEN "Net" ELSE "LoreApi"

\* Mutant: the failed send is ignored and the call goes on to await the reply.
SendErrorAsRecv(l) == Err("Receiving response from " \o ActorName(l) \o " actor")

\* `.context("Sending message to <X> actor")` on a failed queue send.
SendError(l) == Err("Sending message to " \o ActorName(l) \o " actor")

\* Mutant: the receive stage reports with the send stage's context.
RecvErrorAsSend(l) == SendError(l)

\* `.context("Receiving response from <X> actor")` on an abandoned reply slot.
RecvError(l) == Err("Receiving response from " \o ActorName(l) \o " actor")

\* ------------------------------------------- transport mock (net.rs)
\* MockRequestKey::{get,post,put,delete,patch}(url): the (verb, url) pair.
MockRequestKey(method, url) == [method |-> method, url |-> url]

\* Mutant: a miss is answered with an empty body.
NetLookupOrEmpty(responses, key, verb) ==
    IF key \in DOMAIN responses THEN Ok(responses[key]) ELSE Ok("")

\* responses.get(&key).map(ArcStr::clone).ok_or_else(|| anyhow!(...))
NetLookup(responses, key, verb) ==
    IF key \in DOMAIN responses
    THEN Ok(responses[key])
    ELSE Err(verb \o " request not found in mock responses: " \o key.url)

\* Mutant: POST is looked up by url alone, under whatever verb it was stored.
post_mock_url_only(responses, m) ==
    IF \E k \in DOMAIN responses : k.url = m.url
    THEN Ok(responses[CHOOSE k \in DOMAIN responses : k.url = m.url])
    ELSE Err("POST request not found in mock responses: " \o m.url)

get_mock(responses, m) == NetLookup(responses, MockRequestKey("GET", m.url), "GET")
post_mock(responses, m) == NetLookup(responses, MockRequestKey("POST", m.url), "POST")
put_mock(responses, m) == NetLookup(responses, MockRequestKey("PUT", m.url), "PUT")
delete_mock(responses, m) == NetLookup(responses, MockRequestKey("DELETE", m.url), "DELETE")
patch_mock(responses, m) == NetLookup(responses, MockRequestKey("PATCH", m.url), "PATCH")

\* ---------------------------------------------- facade mock (lore.rs)
\* format!("patch_feed_{}_{}", target_list, min_index)
patch_feed_key(m) == "patch_feed_" \o m.target_list \o "_" \o ToString(m.min_index)
\* format!("available_lists_{}", min_index)
available_lists_key(m) == "available_lists_" \o ToString(m.min_index)
\* format!("patch_html_{}_{}", target_list, message_id)
patch_html_key(m) == "patch_html_" \o m.target_list \o "_" \o m.message_id
\* format!("raw_patch_{}_{}", target_list, message_id)
raw_patch_key(m) == "raw_patch_" \o m.target_list \o "_" \o m.message_id
\* format!("patch_metadata_{}_{}", target_list, message_id)
patch_metadata_key(m) == "patch_metadata_" \o m.target_list \o "_" \o m.message_id

\* Mutant: the miss is reported without the key.
LoreLookupNoKey(responses, key, what) ==
    IF key \in DOMAIN responses
    THEN Ok(responses[key])
    ELSE Err(what \o " not found in mock responses")

\* responses.get(&key).map(ArcStr::clone).ok_or_else(|| anyhow!("... : {}", key))
LoreLookup(responses, key, what) ==
    IF key \in DOMAIN responses
    THEN Ok(responses[key])
    ELSE Err(what \o " not found in mock responses: " \o key)

\* Mutant: the feed key leaves out the pagination offset.
get_patch_feed_mock_no_index(responses, m) ==
    LoreLookup(responses, "patch_feed_" \o m.target_list, "Patch feed")

get_patch_feed_mock(responses, m) == LoreLookup(responses, patch_feed_key(m), "Patch feed")
get_available_lists_mock(responses, m) == LoreLookup(responses, available_lists_key(m), "Available lists")
get_patch_html_mock(responses, m) == LoreLookup(responses, patch_html_key(m), "Patch HTML")
get_raw_patch_mock(responses, m) == LoreLookup(responses, raw_patch_key(m), "Raw patch")
get_patch_metadata_mock(responses, m) == LoreLookup(responses, patch_metadata_key(m), "Patch metadata")

\* The Mock arm of the handle method a call names.
MockArm(responses, m) ==
    CASE m.op = "get" -> get_mock(responses, m)
      [] m.op = "post" -> post_mock(responses, m)
      [] m.op = "put" -> put_mock(responses, m)
      [] m.op = "delete" -> delete_mock(responses, m)
      [] m.op = "patch" -> patch_mock(responses, m)
      [] m.op = "get_patch_feed" -> get_patch_feed_mock(responses, m)
      [] m.op = "get_available_lists" -> get_available_lists_mock(responses, m)
      [] m.op = "get_patch_html" -> get_patch_html_mock(responses, m)
      [] m.op = "get_raw_patch" -> get_raw_patch_mock(responses, m)
      [] m.op = "get_patch_metadata" -> get_patch_metadata_mock(responses, m)

\* The key the Mock arm of a call computes.
MockKey(m) ==
    CASE m.op = "get" -> MockRequestKey("GET", m.url)
      [] m.op = "post" -> MockRequestKey("POST", m.url)
      [] m.op = "put" -> MockRequestKey("PUT", m.url)
      [] m.op = "delete" -> MockRequestKey("DELETE", m.url)
      [] m.op = "patch" -> MockRequestKey("PATCH", m.url)
      [] m.op = "get_patch_feed" -> patch_feed_key(m)
      [] m.op = "get_available_lists" -> available_lists_key(m)
      [] m.op = "get_patch_html" -> patch_html_key(m)
      [] m.op = "get_raw_patch" -> raw_patch_key(m)
      [] m.op = "get_patch_metadata" -> patch_metadata_key(m)

\* ------------------------------------- request messages (Live arms)
\* Message::Get { url, headers, tx }
get_msg(m, tx) == [op |-> "get", url |-> m.url, headers |-> m.headers, tx |-> tx]
\* Message::Post { url, headers, body, tx }
post_msg(m, tx) == [op |-> "post", url |-> m.url, headers |-> m.headers, body |-> m.body, tx |-> tx]
\* Message::Put { url, headers, body, tx }
put_msg(m, tx) == [op |-> "put", url |-> m.url, headers |-> m.headers, body |-> m.body, tx |-> tx]
\* Message::Delete { url, headers, tx }
delete_msg(m, tx) == [op |-> "delete", url |-> m.url, headers |-> m.headers, tx |-> tx]
\* Message::Patch { url, headers, body, tx }
patch_msg(m, tx) == [op |-> "patch", url |-> m.url, headers |-> m.headers, body |-> m.body, tx |-> tx]
\* LoreApiMessage::GetPatchFeed { target_list, min_index, tx }
get_patch_feed_msg(m, tx) ==
    [op |-> "get_patch_feed", target_list |-> m.target_list, min_index |-> m.min_index, tx |-> tx]
\* LoreApiMessage::GetAvailableLists { min_index, tx }
get_available_lists_msg(m, tx) == [op |-> "get_available_lists", min_index |-> m.min_index, tx |-> tx]
\* Mutant: the list name is sent in the place of the message id.
get_patch_html_msg_list_as_id(m, tx) ==
    [op |-> "get_patch_html", target_list |-> m.target_list, message_id |-> m.target_list, tx |-> tx]

\* LoreApiMessage::GetPatchHtml { target_list, message_id, tx }
get_patch_html_msg(m, tx) ==
    [op |-> "get_patch_html", target_list |-> m.target_list, message_id |-> m.message_id, tx |-> tx]
\* LoreApiMessage::GetRawPatch { target_list, message_id, tx }
get_raw_patch_msg(m, tx) ==
    [op |-> "get_raw_patch", target_list |-> m.target_list, message_id |-> m.message_id, tx |-> tx]
\* LoreApiMessage::GetPatchMetadata { target_list, message_id, tx }
get_patch_metadata_msg(m, tx) ==
    [op |-> "get_patch_metadata", target_list |-> m.target_list, message_id |-> m.message_id, tx |-> tx]

\* The message the Live arm of a call puts on the owner's queue.
LiveMsg(m, tx) ==
    CASE m.op = "get" -> get_msg(m, tx)
      [] m.op = "post" -> post_msg(m, tx)
      [] m.op = "put" -> put_msg(m, tx)
      [] m.op = "delete" -> delete_msg(m, tx)
      [] m.op = "patch" -> patch_msg(m, tx)
      [] m.op = "get_patch_feed" -> get_patch_feed_msg(m, tx)
      [] m.op = "get_available_lists" -> get_available_lists_msg(m, tx)
      [] m.op = "get_patch_html" -> get_patch_html_msg(m, tx)
      [] m.op = "get_raw_patch" -> get_raw_patch_msg(m, tx)
      [] m.op = "get_patch_metadata" -> get_patch_metadata_msg(m, tx)

\* ------------------------------- the owner tasks' operations (core.rs)
\* The archive's base address the facade owner is configured with.
Domain == "https://lore.kernel.org"

\* The target the facade owner builds from a message's domain parameters.
Url(m) ==
    CASE m.op = "get_patch_feed" ->
            Domain \o "/" \o m.target_list \o "/?x=A&o=" \o ToString(m.min_index)
      [] m.op = "get_available_lists" -> Domain \o "/?o=" \o ToString(m.min_index)
      [] m.op = "get_patch_html" -> Domain \o "/" \o m.target_list \o "/" \o m.message_id \o "/"
      [] m.op = "get_raw_patch" -> Domain \o "/" \o m.target_list \o "/" \o m.message_id \o "/raw"
      [] m.op = "get_patch_metadata" -> Domain \o "/" \o m.target_list \o "/" \o m.message_id \o "/json"

\* The body the external service returns for a transport request.
Body(m) == "<" \o m.op \o " " \o m.url \o ">"

\* What one transport operation can end in: the body, or a failure.
Outcomes(m) == {Ok(Body(m)), Err("request failed: " \o m.url)}

\* ---------------------------------------------------------------- state
\* Tasks that call handle methods: the callers, and the facade owner task,
\* which calls its own Net handle while it serves a message.
LoreCore == 0
Callers == 1..NumCallers
Clients == {LoreCore} \cup Callers

\* Reply slots (oneshot channels): one per caller request, and one per
\* facade request for the transport call the facade owner makes for it.
CallerSlots == 1..MaxReq
NestedSlot(id) == MaxReq + id
Slots == 1..(2 * MaxReq)

\* Option<T>
None == <<>>
Some(x) == <<x>>

NoCall == [layer |-> "none", op |-> "none"]
Unset == Err("<unset>")
NoSlot == [tx |-> "none", rx |-> "none", writes |-> 0, val |-> Unset]
\* tokio::sync::oneshot::channel()
NewSlot == [tx |-> "live", rx |-> "live", writes |-> 0, val |-> Unset]

VARIABLES
    mode,       \* per layer, the handle's variant: "Actual" or "Mock"
    responses,  \* per layer, the Mock table
    holders,    \* per layer, the clients holding the Mock table's mutex
    waiters,    \* per layer, the clients suspended in lock(), in arrival order
    cap,        \* the capacity the owners' mpsc queues were created with
    queue,      \* per layer, the owner's mpsc queue
    owner,      \* per layer, the owner task: "alive" or "vanished"
    running,    \* per layer, the messages the owner is executing
    slot,       \* the reply slots
    nextId,     \* the next caller slot
    pc,         \* per client: idle, send, wait, lock, locked, done
    call,       \* per client, the handle call it is in (or was last in)
    chan,       \* per client, the reply slot of its call
    result,     \* per client, what its last call returned
    enqOrder,   \* per layer, the slots of the messages in the order enqueued
    replyOrder, \* per layer, the slots in the order the owner replied
    handle,     \* per client and layer, the handle value the client holds
    level,      \* a LogLevel value
    text,       \* a log level's text, as a sequence of characters
    parsed      \* what LogLevel::from_str returned for the text

\* The state of the log level conversions (src/log/data.rs).
logVars == <<level, text, parsed>>

vars == <<mode, responses, holders, waiters, cap, queue, owner, running, slot, nextId,
          pc, call, chan, result, enqOrder, replyOrder, handle, level, text, parsed>>

\* ----------------------------------------------------- inputs (Live)
\* The calls caller `p` makes on the Live handles: each caller asks for a message
\* id and a url of its own, so that a reply tells whose request it answers.
LiveCalls(p) ==
    {[layer |-> "lore", op |-> "get_patch_html", target_list |-> "amd-gfx",
      message_id |-> "id" \o ToString(p)],
     [layer |-> "net", op |-> "post", url |-> "u" \o ToString(p), headers |-> None,
      body |-> Some("b")]}

EmptyTable == [k \in {} |-> ""]

\* The tables a Mock transport handle under a Live facade is built with.
LiveNetTables ==
    {EmptyTable,
     [k \in {MockRequestKey("GET", Domain \o "/amd-gfx/id1/")} |-> "<html>1</html>"]}

\* ---------------------------------------------------------- handles
\* A handle value: its variant and what it refers to, the owner's queue
\* (Sender) or the table (Arc).  Each layer has one queue and one table.
Handle(variant, l) == [variant |-> variant, ref |-> l]
\* A client that was given no handle, and one that has dropped its handle.
NoHandle == [variant |-> "none", ref |-> "none"]
Dropped == [variant |-> "dropped", ref |-> "none"]

\* Mutant: the facade owner is spawned without a Net handle of its own.
HandlesCoreWithoutNet(modes, cs) ==
    [p \in Clients |->
        [l \in Layers |-> IF <<p, l>> \in cs THEN Handle(modes[l], l) ELSE NoHandle]]

\* The handles the pairs (client, layer) in `cs` stand for, of the variants in
\* `modes`, and the Net handle the facade owner was spawned with.
Handles(modes, cs) ==
    [p \in Clients |->
        [l \in Layers |->
            IF <<p, l>> \in cs \/ (p = LoreCore /\ l = "net" /\ modes["lore"] = "Actual")
            THEN Handle(modes[l], l)
            ELSE NoHandle]]

Holds(p, l) == handle[p][l].variant \in {"Actual", "Mock"}
HoldersOf(l) == {p \in Clients : Holds(p, l)}

\* Mutant: the clone is a handle of a copy of the queue or table.
CloneCopy(h) == [h EXCEPT !.ref = "copy of " \o h.ref]

\* #[derive(Clone)]: Sender::clone / Arc::clone, the same reference again.
Clone(h) == h

\* A call of a method on handle `h`: it goes to what the handle refers to.
Via(h, m) == [m EXCEPT !.layer = h.ref]

\* The handles after the owner of layer `l` has ended: the facade owner's
\* Net handle is dropped with it.
Release(l) ==
    IF l = "lore" /\ Holds(LoreCore, "net")
    THEN [handle EXCEPT ![LoreCore]["net"] = Dropped]
    ELSE handle

\* ------------------------------------------------------ handle calls
\* Mutant: the message goes to the front of the queue.
EnqueueFront(q, msg) == <<msg>> \o q

\* Mutant: the message is sent twice.
EnqueueTwice(q, msg) == Append(Append(q, msg), msg)

\* sender.send(msg).await on the bounded queue: the message goes to the back.
Enqueue(q, msg) == Append(q, msg)

\* The start of a handle call `m` by client `p`, up to its first suspension.
\* Live arm: create the reply slot `id`, then send: at once an error when the
\* receiver is gone, enqueued when there is room, suspended when full.
\* Mock arm: lock the table, suspended behind the clients that asked before
\* while another client holds it (the mutex serves lock() in arrival order).
\* `q` and `s` are the queues and slots this step starts from.
Begin(p, m, id, q, s) ==
    LET l == m.layer IN
    /\ call' = [call EXCEPT ![p] = m]
    /\ IF mode[l] = "Actual"
       THEN /\ chan' = [chan EXCEPT ![p] = id]
            /\ UNCHANGED <<holders, waiters>>
            /\ IF owner[l] # "alive"
               THEN /\ pc' = [pc EXCEPT ![p] = "done"]
                    /\ result' = [result EXCEPT ![p] = SendError(l)]
                    /\ slot' = [s EXCEPT ![id] = [NewSlot EXCEPT !.tx = "dropped", !.rx = "dropped"]]
                    /\ queue' = q
                    /\ enqOrder' = enqOrder
               ELSE IF Len(q[l]) < cap
               THEN /\ pc' = [pc EXCEPT ![p] = "wait"]
                    /\ result' = [result EXCEPT ![p] = Unset]
                    /\ slot' = [s EXCEPT ![id] = NewSlot]
                    /\ queue' = [q EXCEPT ![l] = Enqueue(q[l], LiveMsg(m, id))]
                    /\ enqOrder' = [enqOrder EXCEPT ![l] = Append(@, id)]
               ELSE /\ pc' = [pc EXCEPT ![p] = "send"]
                    /\ result' = [result EXCEPT ![p] = Unset]
                    /\ slot' = [s EXCEPT ![id] = NewSlot]
                    /\ queue' = q
                    /\ enqOrder' = enqOrder
       ELSE /\ chan' = [chan EXCEPT ![p] = 0]
            /\ result' = [result EXCEPT ![p] = Unset]
            /\ slot' = s
            /\ queue' = q
            /\ enqOrder' = enqOrder
            /\ IF holders[l] = {}
               THEN /\ holders' = [holders EXCEPT ![l] = {p}]
                    /\ waiters' = waiters
                    /\ pc' = [pc EXCEPT ![p] = "locked"]
               ELSE /\ holders' = holders
                    /\ waiters' = [waiters EXCEPT ![l] = Append(@, p)]
                    /\ pc' = [pc EXCEPT ![p] = "lock"]

\* A caller calls a method of a handle.
CallStart(p, m) ==
    /\ pc[p] \in {"idle", "done"}
    /\ Holds(p, m.layer)
    /\ mode[m.layer] = "Actual" => nextId <= MaxReq
    /\ Begin(p, Via(handle[p][m.layer], m), nextId, queue, slot)
    /\ nextId' = IF mode[m.layer] = "Actual" THEN nextId + 1 ELSE nextId
    /\ UNCHANGED <<logVars, handle, mode, responses, cap, owner, running, replyOrder>>

\* Mutant: the suspended send gives its message up and the call goes on to
\* await a reply.
SendResumeLost(p) ==
    /\ pc[p] = "send"
    /\ pc' = [pc EXCEPT ![p] = "wait"]
    /\ UNCHANGED <<logVars, handle, mode, responses, cap, holders, waiters, queue, owner, running,
                   slot, nextId, call, chan, result, enqOrder, replyOrder>>

\* A send suspended on a full queue completes: the message is enqueued when
\* a place is free, and the send fails when the receiver is gone.
SendResume(p) ==
    LET l == call[p].layer IN
    /\ pc[p] = "send"
    /\ IF owner[l] # "alive"
       THEN /\ pc' = [pc EXCEPT ![p] = "done"]
            /\ result' = [result EXCEPT ![p] = SendError(l)]
            /\ slot' = [slot EXCEPT ![chan[p]].tx = "dropped", ![chan[p]].rx = "dropped"]
            /\ UNCHANGED <<queue, enqOrder>>
       ELSE /\ Len(queue[l]) < cap
            /\ pc' = [pc EXCEPT ![p] = "wait"]
            /\ queue' = [queue EXCEPT ![l] = Enqueue(@, LiveMsg(call[p], chan[p]))]
            /\ enqOrder' = [enqOrder EXCEPT ![l] = Append(@, chan[p])]
            /\ UNCHANGED <<result, slot>>
    /\ UNCHANGED <<logVars, handle, mode, responses, cap, holders, waiters, owner, running, nextId, call, chan, replyOrder>>

\* Mutant: an abandoned reply slot is read as an empty body.
ReceivedOrDefault(l, s) == IF s.writes > 0 THEN s.val ELSE Ok("")

\* rx.await.context("Receiving response from ... actor")?: the written value,
\* or the receive error when the sender was dropped without a value.
Received(l, s) == IF s.writes > 0 THEN s.val ELSE RecvError(l)

\* Mutant: the call polls the reply slot once instead of awaiting it, and
\* returns whether or not the reply is there.
RecvUnawaited(p) ==
    LET l == call[p].layer
        s == slot[chan[p]] IN
    /\ pc[p] = "wait"
    /\ pc' = [pc EXCEPT ![p] = "done"]
    /\ result' = [result EXCEPT ![p] = Received(l, s)]
    /\ slot' = [slot EXCEPT ![chan[p]].rx = "done"]
    /\ UNCHANGED <<logVars, handle, mode, responses, cap, holders, waiters, queue, owner, running, nextId, call, chan,
                   enqOrder, replyOrder>>

\* The reply slot resolves: a value was written, or its sender was dropped.
Recv(p) ==
    LET l == call[p].layer
        s == slot[chan[p]] IN
    /\ pc[p] = "wait"
    /\ s.writes > 0 \/ s.tx = "dropped"
    /\ pc' = [pc EXCEPT ![p] = "done"]
    /\ result' = [result EXCEPT ![p] = Received(l, s)]
    /\ slot' = [slot EXCEPT ![chan[p]].rx = "done"]
    /\ UNCHANGED <<logVars, handle, mode, responses, cap, holders, waiters, queue, owner, running, nextId, call, chan,
                   enqOrder, replyOrder>>

\* Mutant: the guard is dropped without waking the client that waits for the
\* mutex.
UnlockNoWake(l, p, f) ==
    /\ holders' = [holders EXCEPT ![l] = @ \ {p}]
    /\ waiters' = waiters
    /\ pc' = f

\* The mutex guard of client `p` is dropped: the mutex passes to the client
\* that has waited longest, which resumes holding it.  `f` is pc after `p`'s step.
Unlock(l, p, f) ==
    IF waiters[l] # <<>>
    THEN /\ holders' = [holders EXCEPT ![l] = (@ \ {p}) \cup {Head(waiters[l])}]
         /\ waiters' = [waiters EXCEPT ![l] = Tail(@)]
         /\ pc' = [f EXCEPT ![Head(waiters[l])] = "locked"]
    ELSE /\ holders' = [holders EXCEPT ![l] = @ \ {p}]
         /\ waiters' = waiters
         /\ pc' = f

\* Mutant: a miss stores an empty body under the key it looked up.
TableAfterInsert(tb, m) ==
    IF MockKey(m) \in DOMAIN tb
    THEN tb
    ELSE [k \in DOMAIN tb \cup {MockKey(m)} |-> IF k \in DOMAIN tb THEN tb[k] ELSE ""]

\* Mutant: a hit takes the fixture out of the table (remove for get).
TableAfterRemove(tb, m) == [k \in DOMAIN tb \ {MockKey(m)} |-> tb[k]]

\* The table after the Mock arm of call `m`: responses.get(&key) reads the
\* map through the guard and stores nothing.
TableAfter(tb, m) == tb

\* The Mock arm's lookup; the guard is dropped on return.
MockReturn(p) ==
    LET l == call[p].layer IN
    /\ pc[p] = "locked"
    /\ result' = [result EXCEPT ![p] = MockArm(responses[l], call[p])]
    /\ responses' = [responses EXCEPT ![l] = TableAfter(@, call[p])]
    /\ Unlock(l, p, [pc EXCEPT ![p] = "done"])
    /\ UNCHANGED <<logVars, handle, mode, cap, queue, owner, running, slot, nextId, call, chan,
                   enqOrder, replyOrder>>

\* LogLevel::from_str not called yet.
Unparsed == [ok |-> FALSE, val |-> "<unparsed>"]

\* ------------------------------------------------------ owner tasks
\* Elements of a sequence.
Range(q) == {q[i] : i \in 1..Len(q)}

\* Mutant: the value is stored in the slot whether or not its receiver is there.
ReplyUnchecked(s, id, v) == [s EXCEPT ![id].tx = "used", ![id].val = v, ![id].writes = @ + 1]

\* tx.send(v) on a reply slot: the value is stored when the receiver still
\* waits; with the receiver gone the value is dropped and nothing else happens.
Reply(s, id, v) ==
    IF s[id].rx = "live"
    THEN [s EXCEPT ![id].tx = "used", ![id].val = v, ![id].writes = @ + 1]
    ELSE [s EXCEPT ![id].tx = "used"]

\* Mutant: the owner starts every message as it arrives, each in a task of its own.
PullAlways(l) == TRUE

\* Mutant: the owner serves one message and takes no other (`if let` for `while let`).
PullOnce(l) == running[l] = {} /\ replyOrder[l] = <<>>

\* The owner takes its next message only when it is executing none.
CanPull(l) == running[l] = {}

\* The transport call the facade owner makes for a message: GET of the target.
Delegate(m) == [layer |-> "net", op |-> "get", url |-> Url(m), headers |-> None]

\* rx.recv().await yields the head of the queue and the owner starts the
\* operation; the facade owner's operation is a call of its Net handle.
OwnerRecv(l) ==
    /\ owner[l] = "alive"
    /\ CanPull(l)
    /\ queue[l] # <<>>
    /\ LET m == Head(queue[l])
           q == [queue EXCEPT ![l] = Tail(@)]
       IN /\ running' = [running EXCEPT ![l] = @ \cup {m}]
          /\ IF l = "lore"
             THEN Begin(LoreCore, Delegate(m), NestedSlot(m.tx), q, slot)
             ELSE /\ queue' = q
                  /\ UNCHANGED <<holders, waiters, slot, pc, call, chan, result, enqOrder>>
    /\ UNCHANGED <<logVars, handle, mode, responses, cap, owner, nextId, replyOrder>>

\* What the owner sends as the reply of an operation that ended in `r`:
\* the value, or the failure as an error value.
Response(r) == r

\* Mutant: a failed operation is propagated out of the owner's loop.
AfterOpCrash(r) == IF r.ok THEN "alive" ELSE "vanished"

\* The owner task after an operation that ended in `r`: it goes on with its
\* loop whether the operation succeeded or failed.
AfterOp(r) == "alive"

\* The transport owner's operation ends, in success or in failure, and the
\* owner writes the outcome to the message's reply slot.
NetReply ==
    \E m \in running["net"] : \E r \in Outcomes(m) :
        /\ owner["net"] = "alive"
        /\ slot' = Reply(slot, m.tx, Response(r))
        /\ running' = [running EXCEPT !["net"] = @ \ {m}]
        /\ replyOrder' = [replyOrder EXCEPT !["net"] = Append(@, m.tx)]
        /\ owner' = [owner EXCEPT !["net"] = AfterOp(r)]
        /\ UNCHANGED <<logVars, handle, mode, responses, cap, holders, waiters, queue, nextId, pc, call, chan,
                       result, enqOrder>>

\* The facade owner's transport call has returned, and the owner writes what
\* it returned to the message's reply slot.
LoreReply ==
    \E m \in running["lore"] :
        /\ owner["lore"] = "alive"
        /\ pc[LoreCore] = "done"
        /\ slot' = Reply(slot, m.tx, Response(result[LoreCore]))
        /\ running' = [running EXCEPT !["lore"] = @ \ {m}]
        /\ replyOrder' = [replyOrder EXCEPT !["lore"] = Append(@, m.tx)]
        /\ pc' = [pc EXCEPT ![LoreCore] = "idle"]
        /\ owner' = [owner EXCEPT !["lore"] = AfterOp(result[LoreCore])]
        /\ UNCHANGED <<logVars, handle, mode, responses, cap, holders, waiters, queue, nextId, call, chan,
                       result, enqOrder>>

\* The owner task ends without finishing (a panic in the operation, the
\* runtime shutting down): its receiver is dropped with every queued message,
\* and so is the message it was executing, each with its reply sender.  The
\* facade owner's own transport call is dropped where it stands.
OwnerVanish(l) ==
    LET lost == {m.tx : m \in Range(queue[l]) \cup running[l]}
        mine == IF l = "lore" /\ pc[LoreCore] \in {"send", "wait"} THEN {chan[LoreCore]} ELSE {}
        unsent == IF l = "lore" /\ pc[LoreCore] = "send" THEN {chan[LoreCore]} ELSE {}
    IN
    /\ owner[l] = "alive"
    /\ owner' = [owner EXCEPT ![l] = "vanished"]
    /\ queue' = [queue EXCEPT ![l] = <<>>]
    /\ running' = [running EXCEPT ![l] = {}]
    /\ slot' = [i \in Slots |->
                 [slot[i] EXCEPT !.tx = IF i \in lost \cup unsent THEN "dropped" ELSE @,
                                 !.rx = IF i \in mine THEN "dropped" ELSE @]]
    /\ IF l = "lore" /\ pc[LoreCore] = "locked"
       THEN Unlock("net", LoreCore, [pc EXCEPT ![LoreCore] = "idle"])
       ELSE /\ holders' = holders
            /\ waiters' = [waiters EXCEPT !["net"] =
                              IF l = "lore" THEN SelectSeq(@, LAMBDA w : w # LoreCore) ELSE @]
            /\ pc' = IF l = "lore" THEN [pc EXCEPT ![LoreCore] = "idle"] ELSE pc
    /\ handle' = Release(l)
    /\ UNCHANGED <<logVars, mode, responses, cap, nextId, call, chan, result, enqOrder, replyOrder>>

\* -------------------------------------------------- specifications
\* The state after construction, with a handle held for each pair (client,
\* layer) in `cs`.
InitState(modes, tables, cs) ==
    /\ cap \in {1, MaxCap}
    /\ handle = Handles(modes, cs)
    /\ level = "none" /\ text = <<>> /\ parsed = Unparsed
    /\ mode = modes
    /\ responses = tables
    /\ holders = [l \in Layers |-> {}]
    /\ waiters = [l \in Layers |-> <<>>]
    /\ queue = [l \in Layers |-> <<>>]
    /\ owner = [l \in Layers |-> "alive"]
    /\ running = [l \in Layers |-> {}]
    /\ slot = [i \in Slots |-> NoSlot]
    /\ nextId = 1
    /\ pc = [p \in Clients |-> "idle"]
    /\ call = [p \in Clients |-> NoCall]
    /\ chan = [p \in Clients |-> 0]
    /\ result = [p \in Clients |-> Unset]
    /\ enqOrder = [l \in Layers |-> <<>>]
    /\ replyOrder = [l \in Layers |-> <<>>]

\* Every caller holds a clone of each handle.
InitWith(modes, tables) == InitState(modes, tables, Callers \X Layers)

\* LoreApi::spawn(net), with net = Net::spawn(..) or Net::mock(table).
Init ==
    \/ InitWith([lore |-> "Actual", net |-> "Actual"], [lore |-> EmptyTable, net |-> EmptyTable])
    \/ \E tb \in LiveNetTables :
          InitWith([lore |-> "Actual", net |-> "Mock"], [lore |-> EmptyTable, net |-> tb])

Next ==
    \/ \E p \in Callers : \E m \in LiveCalls(p) : CallStart(p, m)
    \/ \E p \in Clients : SendResume(p)
    \/ \E p \in Clients : Recv(p)
    \/ \E p \in Clients : MockReturn(p)
    \/ \E l \in Layers : OwnerRecv(l)
    \/ NetReply
    \/ LoreReply
    \/ \E l \in Layers : OwnerVanish(l)

Spec == Init /\ [][Next]_vars

\* The Live system with every task scheduled fairly and every operation
\* finishing: no owner task is lost.
NextLive ==
    \/ \E p \in Callers : \E m \in LiveCalls(p) : CallStart(p, m)
    \/ \E p \in Clients : SendResume(p)
    \/ \E p \in Clients : Recv(p)
    \/ \E p \in Clients : MockReturn(p)
    \/ \E l \in Layers : OwnerRecv(l)
    \/ NetReply
    \/ LoreReply

\* The steps of each task.  The facade owner's steps include those of the
\* transport call it makes; a caller's steps are those of a call under way.
LoreTask ==
    \/ OwnerRecv("lore")
    \/ SendResume(LoreCore) \/ Recv(LoreCore) \/ MockReturn(LoreCore)
    \/ LoreReply
NetTask == OwnerRecv("net") \/ NetReply
CallerTask(p) == SendResume(p) \/ Recv(p) \/ MockReturn(p)

\* The runtime schedules every task that can run.
Fairness ==
    /\ WF_vars(LoreTask)
    /\ WF_vars(NetTask)
    /\ \A p \in Callers : WF_vars(CallerTask(p))

FairSpec == Init /\ [][NextLive]_vars /\ Fairness

\* ------------------------------------------- the life of a handle
\* A holder of a handle clones it for a caller that has none.  Nothing but
\* the new handle value comes into being.
CloneHandle(p, q, l) ==
    /\ Holds(p, l)
    /\ handle[q][l] = NoHandle
    /\ handle' = [handle EXCEPT ![q][l] = Clone(handle[p][l])]
    /\ UNCHANGED <<logVars, mode, responses, holders, waiters, cap, queue, owner, running, slot,
                   nextId, pc, call, chan, result, enqOrder, replyOrder>>

\* A caller drops its handle; a call under way borrows the handle, so the
\* caller is in none.
DropHandle(p, l) ==
    /\ Holds(p, l)
    /\ pc[p] \in {"idle", "done"}
    /\ handle' = [handle EXCEPT ![p][l] = Dropped]
    /\ UNCHANGED <<logVars, mode, responses, holders, waiters, cap, queue, owner, running, slot,
                   nextId, pc, call, chan, result, enqOrder, replyOrder>>

\* A caller abandons its wait: the future of its call is dropped while it
\* awaits the reply, and the receiving end of the reply slot with it.  The
\* message stays where it is.
Abandon(p) ==
    /\ pc[p] = "wait"
    /\ pc' = [pc EXCEPT ![p] = "idle"]
    /\ slot' = [slot EXCEPT ![chan[p]].rx = "dropped"]
    /\ result' = [result EXCEPT ![p] = Unset]
    /\ UNCHANGED <<logVars, handle, mode, responses, holders, waiters, cap, queue, owner, running,
                   nextId, call, chan, enqOrder, replyOrder>>

\* Mutant: the owner's loop ends as soon as the last handle is dropped.
CanExitEarly(l) == HoldersOf(l) = {}

\* rx.recv().await yields None: every sender is dropped and the queue is empty.
CanExit(l) == HoldersOf(l) = {} /\ queue[l] = <<>>

\* The owner's loop ends on None and the task returns; the facade owner's
\* Net handle is dropped with it.
OwnerExit(l) ==
    /\ mode[l] = "Actual"
    /\ owner[l] = "alive"
    /\ running[l] = {}
    /\ CanExit(l)
    /\ owner' = [owner EXCEPT ![l] = "exited"]
    /\ handle' = Release(l)
    /\ UNCHANGED <<logVars, mode, responses, holders, waiters, cap, queue, running, slot,
                   nextId, pc, call, chan, result, enqOrder, replyOrder>>

\* LoreApi::spawn(Net::spawn(..)): the Net handle is moved into the facade
\* owner, and every caller holds a clone of the LoreApi handle.  The queues
\* are of the smallest capacity.
HandleInit ==
    /\ InitState([lore |-> "Actual", net |-> "Actual"], [lore |-> EmptyTable, net |-> EmptyTable],
                 Callers \X {"lore"})
    /\ cap = 1

HandleNext ==
    \/ \E p \in Callers : \E m \in LiveCalls(p) : CallStart(p, m)
    \/ \E p \in Clients : SendResume(p)
    \/ \E p \in Clients : Recv(p)
    \/ \E l \in Layers : OwnerRecv(l)
    \/ NetReply
    \/ LoreReply
    \/ \E p \in Callers : \E l \in Layers : DropHandle(p, l)
    \/ \E p \in Callers : Abandon(p)
    \/ \E l \in Layers : OwnerExit(l)

\* Every task is scheduled fairly, and an owner whose loop can end ends.
HandleSpec ==
    /\ HandleInit
    /\ [][HandleNext]_vars
    /\ Fairness
    /\ \A l \in Layers : WF_vars(OwnerExit(l))

\* LoreApi::spawn(net.clone()) with net = Net::spawn(..): the facade owner
\* holds one Net handle, caller 1 has kept the other, and every caller holds
\* a clone of the LoreApi handle.  The queues are of the smallest capacity.
LifeInit ==
    /\ InitState([lore |-> "Actual", net |-> "Actual"], [lore |-> EmptyTable, net |-> EmptyTable],
                 (Callers \X {"lore"}) \cup {<<1, "net">>})
    /\ cap = 1

LifeNext ==
    \/ \E p \in Callers : \E m \in LiveCalls(p) : CallStart(p, m)
    \/ \E p \in Clients : SendResume(p)
    \/ \E p \in Clients : Recv(p)
    \/ \E l \in Layers : OwnerRecv(l)
    \/ NetReply
    \/ LoreReply
    \/ \E p \in Callers : \E l \in Layers : DropHandle(p, l)
    \/ \E l \in Layers : OwnerExit(l)

\* Every task is scheduled fairly, and an owner whose loop can end ends.
LifeSpec ==
    /\ LifeInit
    /\ [][LifeNext]_vars
    /\ Fairness
    /\ \A l \in Layers : WF_vars(OwnerExit(l))

\* The tables a Mock transport handle is built with when handles are cloned.
CloneNetTables == {EmptyTable, [k \in {MockRequestKey("POST", "u2")} |-> "<posted>"]}

\* One handle comes from the constructor and is held by caller 1; the other
\* callers get theirs by cloning.  Either LoreApi::spawn(Net::spawn(..)), the
\* Net handle moved into the facade owner, or Net::mock(table).
CloneInit ==
    \/ InitState([lore |-> "Actual", net |-> "Actual"],
                 [lore |-> EmptyTable, net |-> EmptyTable], {<<1, "lore">>})
    \/ \E tb \in CloneNetTables :
          InitState([lore |-> "Mock", net |-> "Mock"], [lore |-> EmptyTable, net |-> tb],
                    {<<1, "net">>})

CloneNext ==
    \/ \E p \in Callers : \E m \in LiveCalls(p) : CallStart(p, m)
    \/ \E p \in Clients : SendResume(p)
    \/ \E p \in Clients : Recv(p)
    \/ \E p \in Clients : MockReturn(p)
    \/ \E l \in Layers : OwnerRecv(l)
    \/ NetReply
    \/ LoreReply
    \/ \E p, q \in Callers : \E l \in Layers : CloneHandle(p, q, l)
    \/ \E p \in Callers : \E l \in Layers : DropHandle(p, l)

CloneSpec == CloneInit /\ [][CloneNext]_vars

\* ------------------------------------- the facade over a Mock transport
\* Caller 1 calls each of the five facade operations; the other callers
\* contend with it for the owner with one of them.
FacadeCalls(p) ==
    IF p = 1
    THEN {[layer |-> "lore", op |-> "get_patch_feed", target_list |-> "amd-gfx", min_index |-> 0],
          [layer |-> "lore", op |-> "get_available_lists", min_index |-> 0]}
         \cup {[layer |-> "lore", op |-> o, target_list |-> "amd-gfx", message_id |-> "id1"] :
                 o \in {"get_patch_html", "get_raw_patch", "get_patch_metadata"}}
    ELSE {[layer |-> "lore", op |-> "get_patch_html", target_list |-> "amd-gfx",
           message_id |-> "id1"]}

\* The tables of the Mock transport: none, a GET fixture for one page, and a
\* fixture for the same page under another verb.
FacadeNetTables ==
    {EmptyTable}
    \cup {[k \in {MockRequestKey(v, Domain \o "/amd-gfx/id1/")} |-> "<html>1</html>"] :
            v \in {"GET", "POST"}}

\* LoreApi::spawn(Net::mock_empty()) and LoreApi::spawn(Net::mock(table)).
FacadeInit ==
    \E tb \in FacadeNetTables :
        InitWith([lore |-> "Actual", net |-> "Mock"], [lore |-> EmptyTable, net |-> tb])

FacadeNext ==
    \/ \E p \in Callers : \E m \in FacadeCalls(p) : CallStart(p, m)
    \/ \E p \in Callers : SendResume(p)
    \/ \E p \in Callers : Recv(p)
    \/ MockReturn(LoreCore)
    \/ OwnerRecv("lore")
    \/ LoreReply

FacadeSpec == FacadeInit /\ [][FacadeNext]_vars /\ Fairness

\* ------------------------------------------- handles of either mode
\* The facade handle is Live or a Mock with or without the fixture of caller
\* 1's page; the transport handle is Live or a Mock as under a Live facade.
ModeInit ==
    \E ml, mn \in {"Actual", "Mock"} :
        \E tl \in IF ml = "Actual" THEN {EmptyTable}
                   ELSE {EmptyTable, [k \in {"patch_html_amd-gfx_id1"} |-> "<html>1</html>"]} :
            \E tn \in IF mn = "Actual" THEN {EmptyTable} ELSE LiveNetTables :
                InitWith([lore |-> ml, net |-> mn], [lore |-> tl, net |-> tn])

ModeSpec == ModeInit /\ [][NextLive]_vars

\* ------------------------------------------- log levels (log/data.rs)
\* Text is a sequence of characters.
LogLevels == {"Info", "Warning", "Error"}

\* impl Display for LogLevel
fmt(l) ==
    CASE l = "Info" -> <<"I", "N", "F", "O">>
      [] l = "Warning" -> <<"W", "A", "R", "N">>
      [] l = "Error" -> <<"E", "R", "R", "O", "R">>

LowerLetters ==
    <<"a", "b", "c", "d", "e", "f", "g", "h", "i", "j", "k", "l", "m",
      "n", "o", "p", "q", "r", "s", "t", "u", "v", "w", "x", "y", "z">>
UpperLetters ==
    <<"A", "B", "C", "D", "E", "F", "G", "H", "I", "J", "K", "L", "M",
      "N", "O", "P", "Q", "R", "S", "T", "U", "V", "W", "X", "Y", "Z">>

\* The place of a letter in a row of letters, 0 when it is not in the row.
Place(c, row) == IF \E i \in DOMAIN row : row[i] = c THEN CHOOSE i \in DOMAIN row : row[i] = c ELSE 0

\* str::to_lowercase
to_lowercase(s) ==
    [i \in DOMAIN s |-> IF Place(s[i], UpperLetters) > 0
                        THEN LowerLetters[Place(s[i], UpperLetters)]
                        ELSE s[i]]

\* A letter in its other case; another character as it is.
OtherCase(c) ==
    IF Place(c, UpperLetters) > 0 THEN LowerLetters[Place(c, UpperLetters)]
    ELSE IF Place(c, LowerLetters) > 0 THEN UpperLetters[Place(c, LowerLetters)]
    ELSE c

\* Mutant: the text is matched as it is written.
from_str_as_written(s) ==
    CASE s = <<"i", "n", "f", "o">> -> Ok("Info")
      [] s = <<"w", "a", "r", "n">> \/ s = <<"w", "a", "r", "n", "i", "n", "g">> -> Ok("Warning")
      [] s = <<"e", "r", "r", "o", "r">> -> Ok("Error")
      [] OTHER -> Err(<<"Invalid log level: ", s>>)

\* impl FromStr for LogLevel
from_str(s) ==
    LET low == to_lowercase(s) IN
    CASE low = <<"i", "n", "f", "o">> -> Ok("Info")
      [] low = <<"w", "a", "r", "n">> \/ low = <<"w", "a", "r", "n", "i", "n", "g">> -> Ok("Warning")
      [] low = <<"e", "r", "r", "o", "r">> -> Ok("Error")
      [] OTHER -> Err(<<"Invalid log level: ", s>>)

\* Texts that Display does not produce: the long name of Warning, and texts
\* that name no level.
LongWarning == <<"w", "a", "r", "n", "i", "n", "g">>
NoLevelTexts ==
    {<<>>, <<"i", "n", "f">>, <<"i", "n", "f", "o", "s">>, <<" ", "i", "n", "f", "o">>,
     <<"w", "a", "r", "n", "s">>, <<"e", "r", "r">>, <<"d", "e", "b", "u", "g">>,
     <<"n", "o", "t", "a", "l", "e", "v", "e", "l">>}

\* level.to_string()
Format(l) ==
    /\ level' = l
    /\ text' = fmt(l)
    /\ parsed' = Unparsed
    /\ UNCHANGED <<handle, mode, responses, holders, waiters, cap, queue, owner, running, slot,
                   nextId, pc, call, chan, result, enqOrder, replyOrder>>

\* A text that is not the Display of a level is written.
Type(s) ==
    /\ level' = "none"
    /\ text' = s
    /\ parsed' = Unparsed
    /\ UNCHANGED <<handle, mode, responses, holders, waiters, cap, queue, owner, running, slot,
                   nextId, pc, call, chan, result, enqOrder, replyOrder>>

\* One letter of the text is put in its other case.
Recase(i) ==
    /\ i \in DOMAIN text
    /\ OtherCase(text[i]) # text[i]
    /\ text' = [text EXCEPT ![i] = OtherCase(@)]
    /\ parsed' = Unparsed
    /\ UNCHANGED <<level, handle, mode, responses, holders, waiters, cap, queue, owner, running,
                   slot, nextId, pc, call, chan, result, enqOrder, replyOrder>>

\* LogLevel::from_str(text)
Parse ==
    /\ parsed = Unparsed
    /\ parsed' = from_str(text)
    /\ UNCHANGED <<level, text, handle, mode, responses, holders, waiters, cap, queue, owner,
                   running, slot, nextId, pc, call, chan, result, enqOrder, replyOrder>>

LogInit ==
    /\ InitWith([lore |-> "Mock", net |-> "Mock"], [lore |-> EmptyTable, net |-> EmptyTable])
    /\ cap = 1

LogNext ==
    \/ \E l \in LogLevels : Format(l)
    \/ \E s \in {LongWarning} \cup NoLevelTexts : Type(s)
    \/ \E i \in 1..9 : Recase(i)
    \/ Parse

LogSpec == LogInit /\ [][LogNext]_vars

\* ------------------------------------------ contention for a Mock table
\* The calls the callers contend with: one of each handle.
LockCalls ==
    {[layer |-> "lore", op |-> "get_patch_metadata", target_list |-> "a", message_id |-> "c"],
     [layer |-> "net", op |-> "patch", url |-> "u1", headers |-> None, body |-> Some("b")]}

\* The tables the two Mock handles are built with.
LockTables ==
    {[lore |-> EmptyTable, net |-> EmptyTable],
     [lore |-> [k \in {"patch_metadata_a_c"} |-> "<metadata>"],
      net |-> [k \in {MockRequestKey("PATCH", "u1")} |-> "<patched>"]]}

\* LoreApi::mock(table) and Net::mock(table), each handle held by caller 1;
\* the other callers get theirs by cloning.
LockInit ==
    \E tb \in LockTables :
        /\ InitState([lore |-> "Mock", net |-> "Mock"], tb, {<<1, "lore">>, <<1, "net">>})
        /\ cap = 1

LockNext ==
    \/ \E p \in Callers : \E m \in LockCalls : CallStart(p, m)
    \/ \E p \in Callers : MockReturn(p)
    \/ \E p, q \in Callers : \E l \in Layers : CloneHandle(p, q, l)

\* Every calling task is scheduled fairly.
LockSpec == LockInit /\ [][LockNext]_vars /\ \A p \in Callers : WF_vars(CallerTask(p))

\* ------------------------------------------------- inputs (Mock)
TargetLists == {"a", "a_b"}
MessageIds == {"c", "b_c"}
MinIndexes == {0, 1}
Urls == {"u1", "u2"}
Headers == {None, Some([accept |-> "text/html"])}
Bodies == {None, Some("b")}

MockLoreCalls ==
    {[layer |-> "lore", op |-> "get_patch_feed", target_list |-> tl, min_index |-> i] :
        tl \in TargetLists, i \in MinIndexes}
    \cup {[layer |-> "lore", op |-> "get_available_lists", min_index |-> i] : i \in MinIndexes}
    \cup {[layer |-> "lore", op |-> o, target_list |-> tl, message_id |-> id] :
            o \in {"get_patch_html", "get_raw_patch", "get_patch_metadata"},
            tl \in TargetLists, id \in MessageIds}

MockNetCalls ==
    {[layer |-> "net", op |-> o, url |-> u, headers |-> h] :
        o \in {"get", "delete"}, u \in Urls, h \in Headers}
    \cup {[layer |-> "net", op |-> o, url |-> u, headers |-> h, body |-> b] :
            o \in {"post", "put", "patch"}, u \in Urls, h \in Headers, b \in Bodies}

\* Caller 1 makes every call; the other callers contend for the tables with
\* one call of each handle.
MockCalls(p) ==
    IF p = 1
    THEN MockLoreCalls \cup MockNetCalls
    ELSE {[layer |-> "lore", op |-> "get_available_lists", min_index |-> 0],
          [layer |-> "net", op |-> "get", url |-> "u1", headers |-> None]}

\* The keys the calls of a handle compute, and the fixture stored under a key.
KeysOf(l) == {MockKey(m) : m \in IF l = "lore" THEN MockLoreCalls ELSE MockNetCalls}
Fixture(l, k) == IF l = "lore" THEN "<" \o k \o ">" ELSE "<" \o k.method \o " " \o k.url \o ">"

\* The keys a table with a single fixture is built with.
SingleKeys(l) ==
    IF l = "lore"
    THEN {"patch_feed_a_0", "patch_html_a_b_c"}
    ELSE {MockRequestKey("GET", "u1"), MockRequestKey("POST", "u2")}

\* The tables a Mock handle is built with: mock_empty(), and mock(table) with
\* one fixture or with a fixture under every key.
MockTables(l) ==
    {EmptyTable, [k \in KeysOf(l) |-> Fixture(l, k)]}
    \cup {[k \in {k0} |-> Fixture(l, k0)] : k0 \in SingleKeys(l)}

\* LoreApi::mock(table) / mock_empty() and Net::mock(table) / mock_empty().
MockInit ==
    \E l \in Layers : \E tb \in MockTables(l) :
        InitWith([lore |-> "Mock", net |-> "Mock"],
                 [x \in Layers |-> IF x = l THEN tb ELSE EmptyTable])

MockNext ==
    \/ \E p \in Callers : \E m \in MockCalls(p) : CallStart(p, m)
    \/ \E p \in Callers : MockReturn(p)

MockSpec == MockInit /\ [][MockNext]_vars

\* ------------------------------------------------------------ claims
\* The layer of the handle a client's call goes to, and whether the call
\* takes the handle's Live arm.
IsLive(p) == call[p].layer \in Layers /\ mode[call[p].layer] = "Actual"

\* C1: on each owner's queue the replies are produced in the order the
\* requests were enqueued: the sequence of replied slots is always a prefix of
\* the sequence of enqueued slots.
C1_FifoReplies ==
    \A l \in Layers :
        /\ Len(replyOrder[l]) <= Len(enqOrder[l])
        /\ \A i \in 1..Len(replyOrder[l]) : replyOrder[l][i] = enqOrder[l][i]

\* Two requests were enqueued on the transport queue, the facade owner's before
\* a caller's that was created earlier, and both were answered in queue order.
C1_Witness ==
    /\ Len(replyOrder["net"]) = 2
    /\ replyOrder["net"] = enqOrder["net"]
    /\ replyOrder["net"][1] > replyOrder["net"][2]

\* C2: an owner task executes at most one operation at any time, whatever the
\* number of callers: the other requests stay in the queue meanwhile.
C2_OneOperationAtATime == \A l \in Layers : Cardinality(running[l]) <= 1

\* Two callers wait on the same owner: one request is executing, the other is
\* still in the queue.
C2_Witness ==
    \E l \in Layers :
        /\ Cardinality(running[l]) = 1
        /\ Len(queue[l]) >= 1
        /\ \A p \in {1, 2} : pc[p] = "wait" /\ call[p].layer = l

\* C3: no reply slot is written more than once, and a caller that waited on a
\* slot ended with the one written value, or, when the sender was dropped with
\* no value, with the receive error, a failure.
C3_OneReplyPerSlot ==
    /\ \A i \in Slots : slot[i].writes <= 1
    /\ \A p \in Clients :
          (pc[p] = "done" /\ IsLive(p) /\ slot[chan[p]].rx = "done") =>
              LET s == slot[chan[p]] IN
              IF s.writes = 1
              THEN result[p] = s.val
              ELSE /\ s.tx = "dropped"
                   /\ result[p] = RecvError(call[p].layer)
                   /\ ~result[p].ok

\* One caller ended with the value written to its slot, another with the
\* failure of a slot abandoned by the owner.
C3_Witness ==
    /\ pc[1] = "done" /\ IsLive(1) /\ slot[chan[1]].rx = "done"
    /\ slot[chan[1]].writes = 1 /\ result[1] = slot[chan[1]].val /\ result[1].ok
    /\ pc[2] = "done" /\ IsLive(2) /\ slot[chan[2]].rx = "done"
    /\ slot[chan[2]].writes = 0 /\ ~result[2].ok

\* The slots whose messages go to each queue: the callers' to either, the
\* facade owner's to the transport queue.
QueueSlots == (Layers \X CallerSlots) \cup ({"net"} \X (Slots \ CallerSlots))

\* C4: with every task scheduled fairly and every operation finishing, each
\* request accepted into an owner's queue eventually has a value, a success
\* or an error, written to its reply slot.
C4_EveryRequestAnswered ==
    \A e \in QueueSlots :
        (e[2] \in Range(enqOrder[e[1]])) ~> (slot[e[2]].writes = 1 /\ slot[e[2]].tx = "used")

\* Two accepted facade requests were answered, one with an error and one
\* with a body.
C4_Witness ==
    \E i, j \in Range(enqOrder["lore"]) :
        /\ slot[i].writes = 1 /\ ~slot[i].val.ok
        /\ slot[j].writes = 1 /\ slot[j].val.ok

\* The transport request a call leads to: the call itself on the transport
\* handle, the facade owner's GET for a call on the facade handle.
Own(m) == IF m.layer = "lore" THEN Delegate(m) ELSE m

\* What a call can return: the outcome of its own transport request, or the
\* error of a failed send or of an abandoned reply at either layer.
Answers(m) ==
    (IF mode["net"] = "Actual"
     THEN Outcomes(Own(m))
     ELSE {MockArm(responses["net"], Own(m))})
    \cup {SendError(l) : l \in Layers} \cup {RecvError(l) : l \in Layers}

\* C5: a caller of a Live handle gets the reply computed from its own
\* arguments, never the reply of another caller's request.
C5_OwnReply == \A p \in Callers : pc[p] = "done" => result[p] \in Answers(call[p])

\* Caller 2 called get_patch_html first and has not yet taken its reply; caller
\* 1 called it meanwhile with another message id and has its own page; the
\* page written for caller 2 is caller 2's.
C5_Witness ==
    /\ mode["net"] = "Actual"
    /\ call[1].op = "get_patch_html" /\ call[2].op = "get_patch_html"
    /\ chan[1] > chan[2]
    /\ pc[1] = "done" /\ result[1] = Ok(Body(Own(call[1])))
    /\ pc[2] = "wait" /\ slot[chan[2]].val = Ok(Body(Own(call[2])))
    /\ result[1] # slot[chan[2]].val

\* C6: a Mock call returns Ok(V) whenever the table holds V under the key the
\* call computes.
C6_MockRoundTrip ==
    \A p \in Callers :
        pc[p] = "done" =>
            LET tb == responses[call[p].layer]
                k == MockKey(call[p])
            IN k \in DOMAIN tb => result[p] = Ok(tb[k])

\* get_patch_feed("a", 0) on a table holding one fixture under "patch_feed_a_0"
\* returned the fixture.
C6_Witness ==
    \E p \in Callers :
        /\ pc[p] = "done"
        /\ call[p].op = "get_patch_feed"
        /\ DOMAIN responses["lore"] = {"patch_feed_a_0"}
        /\ result[p] = Ok(responses["lore"]["patch_feed_a_0"])

\* The "not found" error of a call: the operation's text, then the key the
\* call computes (the url of the transport key, whose verb the text names).
NotFound(m) ==
    CASE m.op = "get" -> "GET request not found in mock responses: " \o m.url
      [] m.op = "post" -> "POST request not found in mock responses: " \o m.url
      [] m.op = "put" -> "PUT request not found in mock responses: " \o m.url
      [] m.op = "delete" -> "DELETE request not found in mock responses: " \o m.url
      [] m.op = "patch" -> "PATCH request not found in mock responses: " \o m.url
      [] m.op = "get_patch_feed" -> "Patch feed not found in mock responses: " \o MockKey(m)
      [] m.op = "get_available_lists" ->
            "Available lists not found in mock responses: " \o MockKey(m)
      [] m.op = "get_patch_html" -> "Patch HTML not found in mock responses: " \o MockKey(m)
      [] m.op = "get_raw_patch" -> "Raw patch not found in mock responses: " \o MockKey(m)
      [] m.op = "get_patch_metadata" ->
            "Patch metadata not found in mock responses: " \o MockKey(m)

\* C7: every call on a handle built by mock_empty() returns the "not found"
\* error that names the key computed from the call's arguments.
C7_EmptyMockNotFound ==
    \A p \in Callers :
        (pc[p] = "done" /\ responses[call[p].layer] = EmptyTable) =>
            result[p] = Err(NotFound(call[p]))

\* get_patch_feed("a", 0) on mock_empty() returned the error naming
\* "patch_feed_a_0".
C7_Witness ==
    \E p \in Callers :
        /\ pc[p] = "done"
        /\ responses["lore"] = EmptyTable
        /\ result[p] = Err("Patch feed not found in mock responses: patch_feed_a_0")

\* C8: a send on a queue whose owner is gone, at the start of a call or after
\* a suspension on a full queue, ends the call in that step with the send
\* error: nothing is enqueued and the reply slot is not awaited.
C8_ClosedQueueFailsAtOnce ==
    [][\A p \in Clients :
          (/\ call'[p].layer \in Layers
           /\ mode[call'[p].layer] = "Actual"
           /\ owner' = owner
           /\ owner[call'[p].layer] # "alive"
           /\ chan'[p] # chan[p] \/ (pc[p] = "send" /\ pc'[p] # "send"))
          => /\ pc'[p] = "done"
             /\ result'[p] = SendError(call'[p].layer)
             /\ result'[p] # RecvError(call'[p].layer)
             /\ ~result'[p].ok
             /\ enqOrder' = enqOrder
             /\ slot'[chan'[p]].rx = "dropped"]_vars

\* A caller's call on a handle whose owner has vanished ended with the send
\* error, its request never enqueued.
C8_Witness ==
    \E p \in Callers :
        /\ pc[p] = "done" /\ IsLive(p)
        /\ owner[call[p].layer] = "vanished"
        /\ result[p] = SendError(call[p].layer)
        /\ chan[p] \notin Range(enqOrder[call[p].layer])

\* C9: when the owner vanishes after accepting a request and before writing
\* its reply slot, the caller's wait resolves, and the caller ends with the
\* receive error, which is not the send error.
C9_AbandonedReplyReported ==
    \A p \in Clients :
        IsLive(p) =>
            LET l == call[p].layer
                s == slot[chan[p]]
            IN /\ (pc[p] = "wait" /\ owner[l] = "vanished") => (s.writes > 0 \/ s.tx = "dropped")
               /\ (pc[p] = "done" /\ chan[p] \in Range(enqOrder[l]) /\ s.writes = 0) =>
                      /\ s.tx = "dropped"
                      /\ result[p] = RecvError(l)
                      /\ result[p] # SendError(l)
                      /\ ~result[p].ok

\* A caller's POST was accepted by the transport owner, the owner vanished
\* with the reply unwritten, and the caller ended with the receive error.
C9_Witness ==
    \E p \in Callers :
        /\ pc[p] = "done" /\ call[p].op = "post" /\ IsLive(p)
        /\ owner["net"] = "vanished"
        /\ chan[p] \in Range(enqOrder["net"])
        /\ slot[chan[p]].writes = 0
        /\ result[p] = RecvError("net")

\* The slots of the owner's replies that carried a failure.
Failed(l) == {i \in Range(replyOrder[l]) : ~slot[i].val.ok}

\* C10: the owner writes the outcome of every operation, a failure as an
\* error value, to the request's reply slot; a failure leaves the owner alive
\* and its queue as it was, and every message queued behind a failure is
\* answered in its turn.
C10_FailureIsReplied ==
    /\ [][\A l \in Layers :
            replyOrder'[l] # replyOrder[l] =>
                LET i == replyOrder'[l][Len(replyOrder'[l])] IN
                /\ slot'[i].writes = 1
                /\ l = "lore" => slot'[i].val = result[LoreCore]
                /\ ~slot'[i].val.ok => (owner'[l] = "alive" /\ queue'[l] = queue[l])]_vars
    /\ \A e \in QueueSlots :
          (Failed(e[1]) # {} /\ e[2] \in {m.tx : m \in Range(queue[e[1]])})
              ~> (e[2] \in Range(replyOrder[e[1]]))

\* The transport owner answered a request with an error value and then
\* answered the next one.
C10_Witness ==
    /\ Len(replyOrder["net"]) = 2
    /\ replyOrder["net"][1] \in Failed("net")
    /\ slot[replyOrder["net"][2]].writes = 1
    /\ owner["net"] = "alive"

\* The Live layers: those with an owner task.
LiveLayers == {l \in Layers : mode[l] = "Actual"}

\* C11: once every handle of a Live owner's queue is dropped the owner
\* eventually ends; an owner that has ended has left no message in its queue
\* and has replied to every request it accepted; and no owner ends while a
\* handle of its queue exists.
C11_OwnerEndsWithLastHandle ==
    /\ [](\A l \in LiveLayers :
            owner[l] = "exited" =>
                /\ HoldersOf(l) = {}
                /\ queue[l] = <<>> /\ running[l] = {}
                /\ replyOrder[l] = enqOrder[l])
    /\ [](\A l \in LiveLayers : HoldersOf(l) # {} => owner[l] = "alive")
    /\ \A l \in Layers :
          (mode[l] = "Actual" /\ HoldersOf(l) = {}) ~> (owner[l] = "exited")

\* Both owners have ended after the last handles were dropped; the facade
\* owner had an abandoned request in its queue then, and replied to it first.
C11_Witness ==
    /\ owner["lore"] = "exited" /\ owner["net"] = "exited"
    /\ \E i \in Range(replyOrder["lore"]) : slot[i].rx = "dropped" /\ slot[i].writes = 0

\* C12: a caller that abandons its wait takes nothing from the owner: the
\* message stays queued or running; the owner's reply to the abandoned slot
\* writes nothing, leaves the owner alive and its queue as it was; and the
\* owner goes on until it has replied to every request it accepted.
C12_AbandonedWaitIsHarmless ==
    /\ [][\A i \in Slots :
            (slot[i].rx = "live" /\ slot'[i].rx = "dropped") =>
                (queue' = queue /\ running' = running /\ owner' = owner)]_vars
    /\ [][\A l \in Layers :
            replyOrder'[l] # replyOrder[l] =>
                LET i == replyOrder'[l][Len(replyOrder'[l])] IN
                slot[i].rx = "dropped" =>
                    /\ slot'[i].writes = 0 /\ slot'[i].val = Unset
                    /\ \A j \in Slots \ {i} : slot'[j] = slot[j]
                    /\ owner'[l] = "alive"
                    /\ queue'[l] = queue[l]]_vars
    /\ \A l \in Layers : []<>(replyOrder[l] = enqOrder[l])

\* The facade owner replied to an abandoned request, writing nothing, and
\* then answered the request queued behind it.
C12_Witness ==
    /\ Len(replyOrder["lore"]) = 2
    /\ slot[replyOrder["lore"][1]].rx = "dropped" /\ slot[replyOrder["lore"][1]].writes = 0
    /\ slot[replyOrder["lore"][1]].tx = "used"
    /\ slot[replyOrder["lore"][2]].writes = 1
    /\ owner["lore"] = "alive"

\* C13: a send on a full queue of a living owner suspends the caller: while
\* it is suspended its call has no result and its reply slot is whole; it
\* leaves the suspension only with its message appended to the queue; and
\* with the owner scheduled fairly it is eventually enqueued.
C13_FullQueueSuspends ==
    /\ [](\A p \in Clients :
            (pc[p] = "send" /\ owner[call[p].layer] = "alive") =>
                /\ result[p] = Unset
                /\ slot[chan[p]].tx = "live" /\ slot[chan[p]].rx = "live"
                /\ chan[p] \notin Range(enqOrder[call[p].layer]))
    /\ [][\A p \in Clients :
            (pc[p] = "send" /\ pc'[p] # "send" /\ owner[call[p].layer] = "alive") =>
                /\ pc'[p] = "wait"
                /\ queue'[call[p].layer] =
                      Append(queue[call[p].layer], LiveMsg(call[p], chan[p]))]_vars
    /\ \A p \in Clients :
          (pc[p] = "send") ~> (pc[p] = "wait" /\ chan[p] \in Range(enqOrder[call[p].layer]))

\* A caller is suspended in its send: the owner is alive and its queue is full.
C13_Witness ==
    \E p \in Callers :
        /\ pc[p] = "send"
        /\ owner[call[p].layer] = "alive"
        /\ Len(queue[call[p].layer]) = cap

\* C14: no step changes a Mock table: whatever calls are made on a Mock
\* handle by any of its holders, hits or misses, the table stays the one it
\* was built with.
C14_MockTableUnchanged == [][responses' = responses]_vars

\* A call that missed has returned, on a table that holds a fixture under
\* another key, and the table still has no entry under the call's key.
C14_Witness ==
    \E p \in Callers :
        /\ pc[p] = "done"
        /\ ~result[p].ok
        /\ responses[call[p].layer] # EmptyTable
        /\ MockKey(call[p]) \notin DOMAIN responses[call[p].layer]

Verb(op) ==
    CASE op = "get" -> "GET" [] op = "post" -> "POST" [] op = "put" -> "PUT"
      [] op = "delete" -> "DELETE" [] op = "patch" -> "PATCH"

\* C16: a call on the transport mock returns the fixture stored under its own
\* verb and url, whatever its headers and body are, and an error when the
\* table has no entry for that verb and url, whatever it holds for others.
C16_KeyedOnVerbAndUrl ==
    \A p \in Callers :
        (pc[p] = "done" /\ call[p].layer = "net") =>
            LET tb == responses["net"]
                own == {k \in DOMAIN tb : k.method = Verb(call[p].op) /\ k.url = call[p].url}
            IN /\ \A k \in own : result[p] = Ok(tb[k])
               /\ own = {} => ~result[p].ok

\* On a table holding one fixture, for POST of "u2": a POST of "u2" with
\* headers and a body returned it, and a GET of "u1" did not.
C16_Witness ==
    /\ DOMAIN responses["net"] = {MockRequestKey("POST", "u2")}
    /\ pc[1] = "done" /\ call[1].op = "post" /\ call[1].url = "u2"
    /\ call[1].headers # None /\ call[1].body # None
    /\ result[1] = Ok(responses["net"][MockRequestKey("POST", "u2")])
    /\ pc[2] = "done" /\ call[2].op = "get" /\ ~result[2].ok

\* C17: a call on a Live facade over a Mock transport ends, and it ends with
\* what the transport's GET of the facade owner's target gives: the fixture
\* when the table holds one for that GET, and otherwise an error, for each
\* of the five operations.
C17_FacadeReturnsTransportOutcome ==
    /\ [](\A p \in Callers :
            pc[p] = "done" =>
                LET k == MockKey(Delegate(call[p])) IN
                /\ k.method = "GET"
                /\ IF k \in DOMAIN responses["net"]
                   THEN result[p] = Ok(responses["net"][k])
                   ELSE ~result[p].ok)
    /\ \A p \in Callers : (pc[p] \in {"send", "wait"}) ~> (pc[p] = "done")

\* Over a transport mock with no fixture at all, one caller's get_patch_feed
\* and the other's get_patch_html have both ended with an error.
C17_Witness ==
    /\ responses["net"] = EmptyTable
    /\ pc[1] = "done" /\ call[1].op = "get_patch_feed" /\ ~result[1].ok
    /\ pc[2] = "done" /\ call[2].op = "get_patch_html" /\ ~result[2].ok

\* C18: every handle held for a layer, the constructor's or a clone at any
\* remove, refers to the layer's one queue or table; a request sent through
\* it is with the layer's one owner, and a lookup through it has read the
\* layer's one table.
C18_ClonesShareTheTarget ==
    /\ \A p \in Clients : \A l \in Layers :
          Holds(p, l) => handle[p][l] = Handle(mode[l], l)
    /\ \A p \in Callers :
          (pc[p] = "wait" /\ chan[p] \notin Range(replyOrder[call[p].layer])) =>
              /\ Holds(p, call[p].layer)
              /\ LiveMsg(call[p], chan[p]) \in Range(queue[call[p].layer]) \cup running[call[p].layer]
              /\ owner[call[p].layer] = "alive"
    /\ \A p \in Callers :
          (pc[p] = "done" /\ call[p].layer \in Layers /\ mode[call[p].layer] = "Mock") =>
              result[p] = MockArm(responses[call[p].layer], call[p])

\* Caller 2 holds a clone of the facade handle and caller 1 has dropped the
\* handle the clone was made of; the requests of both went to the one queue.
C18_Witness ==
    /\ handle[1]["lore"] = Dropped /\ Holds(2, "lore")
    /\ Len(enqOrder["lore"]) = 2
    /\ chan[1] \in Range(enqOrder["lore"]) /\ chan[2] \in Range(enqOrder["lore"])
    /\ chan[1] # chan[2]
    /\ owner["lore"] = "alive"

\* The names from_str knows, in lower case.
LevelNames ==
    {<<"i", "n", "f", "o">>, <<"w", "a", "r", "n">>, LongWarning, <<"e", "r", "r", "o", "r">>}

\* C19: the text Display gives for a level, its letters in any case, parses
\* to that level; "warning" in any case parses to Warning; a text that is
\* none of the four names in any case parses to an error.
C19_LogLevelRoundTrip ==
    parsed # Unparsed =>
        /\ level \in LogLevels => parsed = Ok(level)
        /\ (level = "none" /\ to_lowercase(text) = LongWarning) => parsed = Ok("Warning")
        /\ (level = "none" /\ to_lowercase(text) \notin LevelNames) => ~parsed.ok

\* The Display text of Warning with two letters put in lower case, "WarN",
\* was parsed, to Warning.
C19_Witness ==
    /\ level = "Warning"
    /\ text = <<"W", "a", "r", "N">>
    /\ parsed = Ok("Warning")

\* The messages of a layer's owner that carry reply slot `i`, queued or running.
Carrying(l, i) ==
    Cardinality({k \in 1..Len(queue[l]) : queue[l][k].tx = i})
        + Cardinality({m \in running[l] : m.tx = i})

\* C20: a call does what its handle's mode says and nothing else.  A Live
\* call locks no table, and puts one message on the queue of its own layer:
\* its reply slot is carried by at most one message anywhere, by exactly one
\* while the call awaits a reply not yet given, and is enqueued once.  A
\* Mock call puts nothing on any queue: a Mock layer's queue stays empty and
\* its owner idle, and under a Mock facade the facade owner makes no
\* transport call, the transport queue holding callers' messages only; its
\* result is the one lookup in its own table.  No step changes a table.
C20_NoEffectOutsideTheMode ==
    /\ [][responses' = responses]_vars
    /\ [](\A l \in Layers :
            /\ mode[l] = "Actual" => (holders[l] = {} /\ waiters[l] = <<>>)
            /\ mode[l] = "Mock" =>
                  (queue[l] = <<>> /\ running[l] = {} /\ enqOrder[l] = <<>>))
    /\ [](\A i \in Slots :
            /\ Carrying("lore", i) + Carrying("net", i) <= 1
            /\ \A l \in Layers :
                  Cardinality({k \in 1..Len(enqOrder[l]) : enqOrder[l][k] = i}) <= 1)
    /\ [](\A p \in Callers :
            IF IsLive(p)
            THEN /\ p \notin holders[call[p].layer]
                 /\ (pc[p] = "wait" /\ chan[p] \notin Range(replyOrder[call[p].layer])) =>
                        Carrying(call[p].layer, chan[p]) = 1
            ELSE /\ pc[p] \in {"lock", "locked", "done"} =>
                      \A l \in Layers : \A k \in 1..Len(queue[l]) : queue[l][k].tx # chan[p]
                 /\ pc[p] = "done" =>
                      result[p] = MockArm(responses[call[p].layer], call[p]))
    /\ [](mode["lore"] = "Mock" =>
            /\ pc[LoreCore] = "idle" /\ call[LoreCore] = NoCall
            /\ \A i \in Range(enqOrder["net"]) : i \in CallerSlots)

\* Under a Mock facade and a Live transport: caller 1's facade call has
\* returned the fixture, caller 2's transport call is queued, and the
\* transport queue holds that one message.
C20_Witness ==
    /\ mode["lore"] = "Mock" /\ mode["net"] = "Actual"
    /\ pc[1] = "done" /\ call[1].layer = "lore" /\ result[1].ok
    /\ pc[2] = "wait" /\ call[2].layer = "net"
    /\ enqOrder["net"] = <<chan[2]>>
    /\ Len(queue["net"]) + Cardinality(running["net"]) = 1

\* C21: calls made concurrently through clones of one Mock handle hold the
\* table lock one at a time; the client that holds it is at its lookup, a step
\* that waits for nothing, with no other lock held and no message awaited;
\* and every such call, be it waiting for the lock or holding it, completes.
C21_LockHeldForTheLookupOnly ==
    /\ [](\A l \in Layers : Cardinality(holders[l]) <= 1)
    /\ [](\A l \in Layers : \A p \in holders[l] :
            /\ pc[p] = "locked" /\ call[p].layer = l
            /\ ENABLED MockReturn(p)
            /\ \A x \in Layers \ {l} : p \notin holders[x] /\ p \notin Range(waiters[x]))
    /\ \A p \in Callers : (pc[p] \in {"lock", "locked"}) ~> (pc[p] = "done" /\ result[p] # Unset)

\* Witness: a caller holds the lock of a table through a clone of the handle
\* while the caller the handle was cloned from waits for the same lock.
C21_Witness ==
    \E l \in Layers : \E p \in Callers \ {1} :
        /\ handle[p][l] = handle[1][l] /\ Holds(p, l)
        /\ holders[l] = {p} /\ pc[p] = "locked"
        /\ waiters[l] = <<1>> /\ pc[1] = "lock"

\* C22: a fixture registered in the facade's Mock table for one (operation,
\* arguments) combination is never returned for a facade call with another
\* operation or other arguments, list names and message ids that contain
\* '_' included: a successful call returns the fixture stored under the key
\* of no call but itself.
C22_KeysSeparateCalls ==
    \A p \in Callers :
        (pc[p] = "done" /\ call[p].layer = "lore" /\ mode["lore"] = "Mock" /\ result[p].ok) =>
            \A m \in MockLoreCalls \ {call[p]} :
                MockKey(m) \in DOMAIN responses["lore"] =>
                    result[p] # Ok(responses["lore"][MockKey(m)])

\* C23: in a Live facade built on a Live transport handle the transport
\* owner does not end while the facade owner runs, the facade owner holding a
\* transport handle all the while; once every facade handle and every other
\* transport handle is dropped both owners eventually end; and the facade
\* owner ends first.
C23_FacadeOwnerEndsFirst ==
    /\ [](owner["lore"] = "alive" => owner["net"] = "alive" /\ Holds(LoreCore, "net"))
    /\ [][owner'["net"] # owner["net"] => owner["lore"] = "exited" /\ owner'["lore"] = "exited"]_vars
    /\ (\A p \in Callers : \A l \in Layers : ~Holds(p, l))
          ~> (owner["lore"] = "exited" /\ owner["net"] = "exited")

\* Witness: both owners have ended after the callers dropped their facade
\* handles and caller 1 the transport handle it had kept, each owner having
\* served a request.
C23_Witness ==
    /\ owner["lore"] = "exited" /\ owner["net"] = "exited"
    /\ \A p \in Callers : handle[p]["lore"] = Dropped
    /\ handle[1]["net"] = Dropped /\ handle[LoreCore]["net"] = Dropped
    /\ replyOrder["lore"] # <<>> /\ Len(replyOrder["net"]) > Len(replyOrder["lore"])

\* The requests of the facade owner that are at the transport owner: in its
\* queue, counted by place, or being executed.
FacadeQueued == {i \in 1..Len(queue["net"]) : queue["net"][i].tx \notin CallerSlots}
FacadeExecuting == {m \in running["net"] : m.tx \notin CallerSlots}

\* C24: a facade owner has at most one request outstanding at the transport
\* owner, queued or executing or being sent, however many callers have
\* requests at the facade owner; and while that request is neither replied to
\* nor lost with its owner, the facade owner awaits it and has taken no
\* further message.
C24_OneDelegatedRequest ==
    /\ Cardinality(FacadeQueued) + Cardinality(FacadeExecuting)
         + (IF pc[LoreCore] = "send" THEN 1 ELSE 0) <= 1
    /\ (owner["lore"] = "alive" /\ FacadeQueued \cup FacadeExecuting # {}) =>
          /\ pc[LoreCore] = "wait"
          /\ Cardinality(running["lore"]) = 1
          /\ \A m \in running["lore"] :
                \A r \in {queue["net"][i] : i \in FacadeQueued} \cup FacadeExecuting :
                    r.tx = NestedSlot(m.tx)

\* Witness: two callers have requests at the facade owner, one taken and one
\* queued behind it, and the transport owner executes the one GET delegated.
C24_Witness ==
    /\ mode["net"] = "Actual" /\ owner["lore"] = "alive"
    /\ Cardinality(running["lore"]) = 1 /\ queue["lore"] # <<>>
    /\ \E p, q \in Callers : p # q /\ pc[p] = "wait" /\ pc[q] = "wait"
                               /\ call[p].layer = "lore" /\ call[q].layer = "lore"
    /\ Cardinality(FacadeExecuting) = 1 /\ FacadeQueued = {}

====
